---- MODULE Spec2Model ----
(***************************************************************************)
(* Corrective RAG engine of Al-Muhami Al-Zaki: the LangGraph state machine *)
(* retrieve -> grade -> route -> {generate | rewrite -> retrieve |         *)
(* no_answer}, its GraphState, the node functions and the routing policy.  *)
(***************************************************************************)
EXTENDS Integers, Sequences, FiniteSets, TLC

VARIABLES
    max_rewrite_attempts, \* Settings.max_rewrite_attempts (cached settings)
    state,                \* the GraphState channels of the request
    pc,                   \* node the graph runs next, "END", or "raised"
    last_node,            \* node that ran last ("START" before the first)
    decision,             \* last value returned by route_after_grading
    n_retrieve,           \* history: number of retrieve nodes run
    n_grade,              \* history: number of grade nodes run
    n_rewrite,            \* history: number of rewrite nodes run
    relevant_seen,        \* history: some grade node kept at least one passage
    outcomes,             \* history: per-passage model outcomes of this attempt's grade
    grade_out,            \* history: graded_documents returned by this attempt's grade
    context,              \* history: passages the generator formatted as context
    llm_failed,           \* history: the last rewrite/generate model call raised
    prompts,              \* history: passage texts sent to the grader model in this attempt
    n_generate,           \* history: number of generator model calls
    search_failed,        \* history: a search call of the run raised
    search_query,         \* history: query given to embedder.search in this attempt
    grade_query,          \* history: question the grade node read in this attempt
    upload,               \* one call of LegalEmbedder.embed_and_upload
    clients,              \* the module-level singletons and the threads calling their accessors
    reqs                  \* two requests run as concurrent tasks

vars == << max_rewrite_attempts, state, pc, last_node, decision, n_retrieve,
           n_grade, n_rewrite, relevant_seen, outcomes, grade_out, context,
           llm_failed, prompts, n_generate, search_failed, search_query,
           grade_query, upload, clients, reqs >>

hist == << n_retrieve, n_grade, n_rewrite, relevant_seen, outcomes, grade_out,
           context, llm_failed, prompts, n_generate, search_failed,
           search_query, grade_query >>

\* the variables of one run of the graph
engine == << max_rewrite_attempts, state, pc, last_node, decision, hist >>

\* the variables outside a run of the graph
off_graph == << upload, clients, reqs >>

----------------------------------------------------------------------------
(* Bounds of the model *)

\* largest max_rewrite_attempts setting explored (the code allows 0..5)
MaxRewriteModelled == 2

\* retrieval_top_k used in the model: longest list a search returns
retrieval_top_k == 2

\* largest rewrite_count handed to a node called on an arbitrary state
OverBudget == 5

\* longest chunk list handed to embed_and_upload
MaxChunks == 3

\* largest batch_size handed to embed_and_upload
MaxBatchSize == 2

\* largest max_retries handed to embed_and_upload
MaxRetriesModelled == 2

\* largest max_rewrite_attempts setting explored with two requests
MaxRewritePair == 1

\* threads calling the singleton accessors
NumThreads == 2

\* accessor calls each thread makes
MaxCalls == 2

----------------------------------------------------------------------------
(* Texts, passages and model-call outcomes *)

SeqsUpTo(S, n) == UNION { [1..k -> S] : k \in 0..n }

\* user questions: texts as sequences of characters
Questions == { <<"q">> }

\* payloads the vector store returns; "text" may be missing (read as "")
SearchHits ==
    { [text |-> <<>>, article_number |-> 1],
      [text |-> <<"t">>, article_number |-> 2] }

SearchResults == SeqsUpTo(SearchHits, retrieval_top_k)

\* Document(page_content=result.get("text", ""), metadata={...})
ToDocument(result) ==
    [page_content |-> result.text, article_number |-> result.article_number]

\* embedder.search: it raises (err) or returns a list of hits
SearchOutcomes ==
    { [err |-> TRUE, results |-> <<>>] } \cup
    { [err |-> FALSE, results |-> r] : r \in SearchResults }

Documents == { ToDocument(r) : r \in SearchHits }

DocLists == SeqsUpTo(Documents, retrieval_top_k)

\* an awaited llm.ainvoke: it raises (err) or returns a response content
Raised == [err |-> TRUE, content |-> <<>>]

Returned(c) == [err |-> FALSE, content |-> c]

\* grader contents, as sequences of words
GraderContents ==
    { <<>>, <<" ", "Relevant", " ">>, <<"irrelevant">>, <<"maybe">>,
      <<"relevant", "irrelevant">> }

GraderOutcomes == {Raised} \cup { Returned(c) : c \in GraderContents }

\* rewriter contents, as sequences of characters
RewriterContents == { <<>>, <<" ">>, <<"q">>, <<" ", "q", " ">>, <<"s">> }

RewriterOutcomes == {Raised} \cup { Returned(c) : c \in RewriterContents }

GeneratorContents == { "answer" }

GeneratorOutcomes ==
    { [err |-> TRUE, content |-> ""] } \cup
    { [err |-> FALSE, content |-> c] : c \in GeneratorContents }

\* the fixed texts of nodes.py
ApologyText == "generation_failed_apology"

NoAnswerText == "no_relevant_information_refusal"

----------------------------------------------------------------------------
(* str.strip() and str.lower() *)

RECURSIVE LStrip(_)
LStrip(s) == IF s # <<>> /\ Head(s) = " " THEN LStrip(Tail(s)) ELSE s

RECURSIVE RStrip(_)
RStrip(s) ==
    IF s # <<>> /\ s[Len(s)] = " " THEN RStrip(SubSeq(s, 1, Len(s) - 1)) ELSE s

Strip(s) == RStrip(LStrip(s))

LowerWord(w) == IF w = "Relevant" THEN "relevant" ELSE w

Lower(s) == [i \in 1..Len(s) |-> LowerWord(s[i])]

\* pat in word, for the two patterns the grader looks for
WordContains(w, pat) == w = pat \/ (w = "irrelevant" /\ pat = "relevant")

\* pat in grade
Contains(grade, pat) == \E i \in 1..Len(grade) : WordContains(grade[i], pat)

----------------------------------------------------------------------------
(* GraphState *)

create_initial_state(question) ==
    [ question         |-> question,
      generation       |-> "",
      documents        |-> <<>>,
      graded_documents |-> <<>>,
      grade_decision   |-> "",
      rewrite_count    |-> 0,
      query_history    |-> <<question>> ]

\* a node's update applied to the channels: graded_documents is
\* Annotated[List[Document], add], every other key is overwritten
Merge(s, update) ==
    [ k \in DOMAIN s |->
        IF k \in DOMAIN update
        THEN IF k = "graded_documents" THEN s[k] \o update[k] ELSE update[k]
        ELSE s[k] ]

----------------------------------------------------------------------------
(* Routing policy *)

\* variant: the decision matrix of the docstring (refusal once exhausted)
Route_Documented(has_relevant_docs, can_rewrite) ==
    IF has_relevant_docs THEN "generate"
    ELSE IF can_rewrite THEN "rewrite"
    ELSE "no_answer"

\* variant: the budget is tested before the relevant set
Route_BudgetFirst(has_relevant_docs, can_rewrite) ==
    IF ~can_rewrite THEN "no_answer"
    ELSE IF has_relevant_docs THEN "generate"
    ELSE "rewrite"

\* variant: the whole budget is spent before generating
Route_RewriteFirst(has_relevant_docs, can_rewrite) ==
    IF can_rewrite THEN "rewrite" ELSE "generate"

Route(has_relevant_docs, can_rewrite) ==
    IF has_relevant_docs THEN "generate"
    ELSE IF can_rewrite THEN "rewrite"
    ELSE "generate"

\* variant: can_rewrite tested with <= (one rewrite too many)
route_after_grading_inclusive(s) ==
    Route(Len(s.graded_documents) > 0, s.rewrite_count <= max_rewrite_attempts)

\* variant: can_rewrite tested with != (rewrites again when over budget)
route_after_grading_unequal(s) ==
    Route(Len(s.graded_documents) > 0, s.rewrite_count # max_rewrite_attempts)

route_after_grading(s) ==
    Route(Len(s.graded_documents) > 0, s.rewrite_count < max_rewrite_attempts)

----------------------------------------------------------------------------
(* Node functions: each returns the node's state update *)

\* variant: no node guards its external call
Escapes_Everywhere(node, err) == err

\* variant: the search call is guarded too (an empty result stands in)
Escapes_Nowhere(node, err) == FALSE

\* whether an error raised by the external call of a node leaves the node:
\* grade, generate and rewrite wrap their model call in try/except
\* Exception, retrieve calls embedder.search bare
Escapes(node, err) == err /\ node = "retrieve"

\* variant: every attempt searches with the user's first question
RetrieveQuery_Original(s) == s.query_history[1]

\* question = state["question"]: the query given to embedder.search
RetrieveQuery(s) == s.question

\* question = state["question"]: the question of the grader prompts
GradeQuery(s) == s.question

retrieve(results) ==
    [ documents |-> [i \in 1..Len(results) |-> ToDocument(results[i])] ]

is_relevant(content) ==
    LET grade == Lower(Strip(content))
    IN  Contains(grade, "relevant") /\ ~Contains(grade, "irrelevant")

\* variant: a passage without text is not sent to the model
GradePrompt_SkipEmpty(doc) ==
    IF doc.page_content = <<>> THEN <<>> ELSE <<doc.page_content>>

\* one iteration of the grading loop: the passage text put in the prompt
\* that llm.ainvoke receives
GradePrompt(doc) == <<doc.page_content>>

\* the model calls of the grading loop, in order
RECURSIVE GradeCalls(_)
GradeCalls(documents) ==
    IF documents = <<>> THEN <<>>
    ELSE GradePrompt(Head(documents)) \o GradeCalls(Tail(documents))

\* variant: a grading error drops the passage (fail-closed)
GradeOne_FailClosed(doc, outcome) ==
    IF outcome.err THEN <<>>
    ELSE IF is_relevant(outcome.content) THEN <<doc>>
    ELSE <<>>

\* variant: a passage whose call raised is appended in the handler and
\* again after it
GradeOne_AppendTwice(doc, outcome) ==
    IF outcome.err THEN <<doc, doc>>
    ELSE IF is_relevant(outcome.content) THEN <<doc>>
    ELSE <<>>

\* one iteration of the grading loop: the passages kept for doc
GradeOne(doc, outcome) ==
    IF outcome.err THEN <<doc>>
    ELSE IF is_relevant(outcome.content) THEN <<doc>>
    ELSE <<>>

\* variant: kept passages are pushed to the front of the list
RECURSIVE GradeLoop_Prepend(_, _)
GradeLoop_Prepend(documents, outs) ==
    IF documents = <<>> THEN <<>>
    ELSE GradeLoop_Prepend(Tail(documents), Tail(outs))
            \o GradeOne(Head(documents), Head(outs))

RECURSIVE GradeLoop(_, _)
GradeLoop(documents, outs) ==
    IF documents = <<>> THEN <<>>
    ELSE GradeOne(Head(documents), Head(outs))
            \o GradeLoop(Tail(documents), Tail(outs))

grade_documents(s, outs) ==
    IF s.documents = <<>>
    THEN [ graded_documents |-> <<>>,
           grade_decision   |-> IF s.rewrite_count < max_rewrite_attempts
                                THEN "rewrite" ELSE "no_answer" ]
    ELSE [ graded_documents |-> GradeLoop(s.documents, outs) ]

\* variant: the generator is given every retrieved passage
GeneratorContext_Retrieved(s) == s.documents

\* documents = state["graded_documents"]: the passages formatted as context
GeneratorContext(s) == s.graded_documents

\* variant: a failed generation leaves the answer unset
generate_silent_failure(s, outcome) ==
    [ generation |-> IF outcome.err THEN "" ELSE outcome.content ]

generate(s, outcome) ==
    [ generation |-> IF outcome.err THEN ApologyText ELSE outcome.content ]

\* variant: a failed rewrite yields an empty query
NewQuestion_EmptyOnError(s, outcome) ==
    IF outcome.err THEN <<>> ELSE Strip(outcome.content)

NewQuestion(s, outcome) ==
    IF outcome.err THEN s.question ELSE Strip(outcome.content)

\* variant: the retry counter is not incremented
rewrite_query_no_increment(s, outcome) ==
    [ question         |-> NewQuestion(s, outcome),
      rewrite_count    |-> s.rewrite_count,
      query_history    |-> Append(s.query_history, NewQuestion(s, outcome)),
      documents        |-> <<>>,
      graded_documents |-> <<>> ]

\* variant: the history is restarted with the new query (no concatenation)
rewrite_query_history_overwritten(s, outcome) ==
    [ question         |-> NewQuestion(s, outcome),
      rewrite_count    |-> s.rewrite_count + 1,
      query_history    |-> <<NewQuestion(s, outcome)>>,
      documents        |-> <<>>,
      graded_documents |-> <<>> ]

\* variant: a failed rewrite is not recorded in the history
rewrite_query_unrecorded_failure(s, outcome) ==
    [ question         |-> NewQuestion(s, outcome),
      rewrite_count    |-> s.rewrite_count + 1,
      query_history    |-> IF outcome.err THEN s.query_history
                           ELSE Append(s.query_history, NewQuestion(s, outcome)),
      documents        |-> <<>>,
      graded_documents |-> <<>> ]

\* variant: the rewrite writes a progress note into the answer
rewrite_query_with_notice(s, outcome) ==
    [ question         |-> NewQuestion(s, outcome),
      generation       |-> "rewriting",
      rewrite_count    |-> s.rewrite_count + 1,
      query_history    |-> Append(s.query_history, NewQuestion(s, outcome)),
      documents        |-> <<>>,
      graded_documents |-> <<>> ]

rewrite_query(s, outcome) ==
    [ question         |-> NewQuestion(s, outcome),
      rewrite_count    |-> s.rewrite_count + 1,
      query_history    |-> Append(s.query_history, NewQuestion(s, outcome)),
      documents        |-> <<>>,
      graded_documents |-> <<>> ]

no_answer(s) == [ generation |-> NoAnswerText ]

----------------------------------------------------------------------------
(* The compiled graph run by run_query *)

\* variant: the rewrite node is wired to grade, skipping the new retrieval
Edge_RewriteToGrade(node) ==
    CASE node = "retrieve"  -> "grade"
      [] node = "rewrite"   -> "grade"
      [] node = "generate"  -> "END"
      [] node = "no_answer" -> "END"

\* workflow.add_edge(node, target): the unconditional edges of the graph
Edge(node) ==
    CASE node = "retrieve"  -> "grade"
      [] node = "rewrite"   -> "retrieve"
      [] node = "generate"  -> "END"
      [] node = "no_answer" -> "END"

\* no embed_and_upload call in progress
IdleUpload ==
    [ pc |-> "idle", chunks |-> <<>>, batch_size |-> 1, max_retries |-> 0,
      i |-> 0, points |-> 0, attempt |-> 0, total_uploaded |-> 0,
      result |-> 0, stored |-> 0, batches |-> <<>> ]

\* the module-level accessors: _graph, _qdrant_client, _groq_client,
\* _gemini_client
Accessors == { "graph", "qdrant", "groq", "gemini" }

Threads == 1..NumThreads

\* the value None of a module-level slot
NoClient == [ id |-> 0, model |-> "none", temperature |-> 0 ]

NoCall == [ accessor |-> "none", model |-> "none", temperature |-> 0 ]

\* at import: every slot is None, no thread is in an accessor
IdleClients ==
    [ cache   |-> [a \in Accessors |-> NoClient],
      built   |-> [a \in Accessors |-> 0],
      handed  |-> [a \in Accessors |-> {}],
      threads |-> [t \in Threads |->
                     [ pc |-> "idle", call |-> NoCall, local |-> NoClient,
                       result |-> NoClient, calls |-> 0 ]] ]

\* no request task started
IdleReqs == << >>

OffGraphIdle ==
    /\ upload = IdleUpload
    /\ clients = IdleClients
    /\ reqs = IdleReqs

HistInit ==
    /\ n_retrieve = 0
    /\ n_grade = 0
    /\ n_rewrite = 0
    /\ relevant_seen = FALSE
    /\ outcomes = <<>>
    /\ grade_out = <<>>
    /\ context = <<>>
    /\ llm_failed = FALSE
    /\ prompts = <<>>
    /\ n_generate = 0
    /\ search_failed = FALSE
    /\ search_query = <<>>
    /\ grade_query = <<>>

\* run_query: graph.ainvoke(create_initial_state(question)), entry "retrieve"
Init ==
    /\ max_rewrite_attempts \in 0..MaxRewriteModelled
    /\ \E question \in Questions : state = create_initial_state(question)
    /\ pc = "retrieve"
    /\ last_node = "START"
    /\ decision = ""
    /\ HistInit
    /\ OffGraphIdle

\* node "retrieve", edge retrieve -> grade; an error that leaves the node
\* leaves graph.ainvoke
Retrieve ==
    /\ pc = "retrieve"
    /\ \E outcome \in SearchOutcomes :
         /\ search_failed' = (search_failed \/ outcome.err)
         /\ search_query' = RetrieveQuery(state)
         /\ IF Escapes("retrieve", outcome.err)
            THEN /\ pc' = "raised"
                 /\ UNCHANGED << state, n_retrieve >>
            ELSE /\ state' = Merge(state, retrieve(outcome.results))
                 /\ pc' = Edge("retrieve")
                 /\ n_retrieve' = n_retrieve + 1
    /\ last_node' = "retrieve"
    /\ UNCHANGED << max_rewrite_attempts, decision, n_grade, n_rewrite,
                    relevant_seen, outcomes, grade_out, context, llm_failed,
                    prompts, n_generate, grade_query, off_graph >>

\* node "grade", then the conditional edge route_after_grading
Grade ==
    /\ pc = "grade"
    /\ \E outs \in [1..Len(state.documents) -> GraderOutcomes] :
         /\ outcomes' = outs
         /\ prompts' = GradeCalls(state.documents)
         /\ IF \E i \in 1..Len(outs) : Escapes("grade", outs[i].err)
            THEN /\ pc' = "raised"
                 /\ UNCHANGED << state, decision, grade_out, relevant_seen >>
            ELSE LET update == grade_documents(state, outs)
                     new    == Merge(state, update)
                 IN  /\ state' = new
                     /\ decision' = route_after_grading(new)
                     /\ pc' = route_after_grading(new)
                     /\ grade_out' = update.graded_documents
                     /\ relevant_seen' =
                            (relevant_seen \/ update.graded_documents # <<>>)
    /\ n_grade' = n_grade + 1
    /\ grade_query' = GradeQuery(state)
    /\ last_node' = "grade"
    /\ UNCHANGED << max_rewrite_attempts, n_retrieve, n_rewrite, context,
                    llm_failed, n_generate, search_failed, search_query,
                    off_graph >>

\* node "rewrite", edge rewrite -> retrieve
RewriteQuery ==
    /\ pc = "rewrite"
    /\ \E outcome \in RewriterOutcomes :
         /\ llm_failed' = outcome.err
         /\ IF Escapes("rewrite", outcome.err)
            THEN /\ pc' = "raised"
                 /\ UNCHANGED state
            ELSE /\ state' = Merge(state, rewrite_query(state, outcome))
                 /\ pc' = Edge("rewrite")
    /\ n_rewrite' = n_rewrite + 1
    /\ last_node' = "rewrite"
    /\ outcomes' = <<>>
    /\ grade_out' = <<>>
    /\ prompts' = <<>>
    /\ search_query' = <<>>
    /\ grade_query' = <<>>
    /\ UNCHANGED << max_rewrite_attempts, decision, n_retrieve, n_grade,
                    relevant_seen, context, n_generate, search_failed,
                    off_graph >>

\* the terminal node the router selected ("generate" or "no_answer"),
\* edge -> END
Terminate ==
    /\ pc \in {"generate", "no_answer"}
    /\ IF pc = "generate"
       THEN \E outcome \in GeneratorOutcomes :
              /\ context' = GeneratorContext(state)
              /\ llm_failed' = outcome.err
              /\ n_generate' = n_generate + 1
              /\ IF Escapes("generate", outcome.err)
                 THEN /\ pc' = "raised"
                      /\ UNCHANGED state
                 ELSE /\ state' = Merge(state, generate(state, outcome))
                      /\ pc' = Edge("generate")
       ELSE /\ state' = Merge(state, no_answer(state))
            /\ pc' = Edge("no_answer")
            /\ UNCHANGED << context, llm_failed, n_generate >>
    /\ last_node' = pc
    /\ UNCHANGED << max_rewrite_attempts, decision, n_retrieve, n_grade,
                    n_rewrite, relevant_seen, outcomes, grade_out, prompts,
                    search_failed, search_query, grade_query, off_graph >>

Next == Retrieve \/ Grade \/ RewriteQuery \/ Terminate

Spec == Init /\ [][Next]_vars

\* the event loop runs the request's task until it returns or raises
FairSpec == Spec /\ WF_vars(Next)

----------------------------------------------------------------------------
(* A node or the router called on an arbitrary GraphState *)

AnyStates ==
    { [ question         |-> q,
        generation       |-> "",
        documents        |-> d,
        graded_documents |-> g,
        grade_decision   |-> "",
        rewrite_count    |-> c,
        query_history    |-> <<q>> ] :
      q \in Questions, d \in DocLists, g \in DocLists, c \in 0..OverBudget }

InitNode ==
    /\ max_rewrite_attempts \in 0..MaxRewriteModelled
    /\ state \in AnyStates
    /\ pc \in {"route", "rewrite", "generate", "no_answer"}
    /\ last_node = "START"
    /\ decision = ""
    /\ HistInit
    /\ OffGraphIdle

\* the conditional edge alone: route_after_grading(state) names the next node
RouteCall ==
    /\ pc = "route"
    /\ decision' = route_after_grading(state)
    /\ pc' = route_after_grading(state)
    /\ last_node' = "route"
    /\ UNCHANGED << max_rewrite_attempts, state, hist, off_graph >>

NextNode == RouteCall \/ RewriteQuery \/ Terminate

SpecNode == InitNode /\ [][NextNode]_vars

----------------------------------------------------------------------------
(* Ingestion: LegalEmbedder.embed_and_upload(chunks, batch_size, max_retries) *)

\* a chunk is modelled by whether LegalChunkPayload accepts it
ChunkLists == SeqsUpTo(BOOLEAN, MaxChunks)

\* the variables of the single-run model, at rest
RunIdle ==
    /\ \E question \in Questions : state = create_initial_state(question)
    /\ pc = "idle"
    /\ last_node = "START"
    /\ decision = ""
    /\ HistInit

EngineIdle == max_rewrite_attempts = 0 /\ RunIdle

\* points built for the batch chunks[i : i + batch_size] (0-based i): one
\* per chunk whose payload validates
RECURSIVE BatchPoints(_, _, _)
BatchPoints(chunks, i, n) ==
    IF n = 0 \/ i >= Len(chunks) THEN 0
    ELSE (IF chunks[i + 1] THEN 1 ELSE 0) + BatchPoints(chunks, i + 1, n - 1)

\* the call: arguments bound, nothing done yet
InitUpload ==
    /\ EngineIdle
    /\ \E chunks \in ChunkLists, batch_size \in 1..MaxBatchSize,
          max_retries \in 0..MaxRetriesModelled :
          upload = [ IdleUpload EXCEPT !.pc = "start", !.chunks = chunks,
                                      !.batch_size = batch_size,
                                      !.max_retries = max_retries ]
    /\ clients = IdleClients
    /\ reqs = IdleReqs

\* if not chunks: return 0; total_uploaded = 0
UploadStart ==
    /\ upload.pc = "start"
    /\ upload' = IF upload.chunks = <<>>
                 THEN [ upload EXCEPT !.pc = "returned", !.result = 0 ]
                 ELSE [ upload EXCEPT !.pc = "batch", !.i = 0,
                                     !.total_uploaded = 0 ]
    /\ UNCHANGED << engine, clients, reqs >>

\* one turn of for i in range(0, len(chunks), batch_size) up to the retry
\* loop: the points are built; if points: for attempt in range(max_retries)
UploadBatch ==
    /\ upload.pc = "batch"
    /\ LET points == BatchPoints(upload.chunks, upload.i, upload.batch_size)
           skipped == [ points |-> points, attempts |-> 0, upserts |-> 0 ]
       IN  upload' =
             IF upload.i >= Len(upload.chunks)
             THEN [ upload EXCEPT !.pc = "returned",
                                 !.result = upload.total_uploaded ]
             ELSE IF points > 0 /\ 0 < upload.max_retries
             THEN [ upload EXCEPT !.pc = "upsert", !.points = points,
                                 !.attempt = 0 ]
             ELSE [ upload EXCEPT !.i = upload.i + upload.batch_size,
                                 !.batches = Append(upload.batches, skipped) ]
    /\ UNCHANGED << engine, clients, reqs >>

\* one turn of the retry loop: self.qdrant.upsert succeeds (count, break)
\* or raises (back off and try again, or re-raise on the last attempt)
UploadUpsert ==
    /\ upload.pc = "upsert"
    /\ \E ok \in BOOLEAN :
         LET done == [ points   |-> upload.points,
                       attempts |-> upload.attempt + 1,
                       upserts  |-> IF ok THEN 1 ELSE 0 ]
         IN  upload' =
               IF ok
               THEN [ upload EXCEPT
                        !.pc = "batch",
                        !.total_uploaded = upload.total_uploaded + upload.points,
                        !.stored = upload.stored + upload.points,
                        !.i = upload.i + upload.batch_size,
                        !.batches = Append(upload.batches, done) ]
               ELSE IF upload.attempt < upload.max_retries - 1
               THEN [ upload EXCEPT !.attempt = upload.attempt + 1 ]
               ELSE [ upload EXCEPT !.pc = "raised",
                                   !.batches = Append(upload.batches, done) ]
    /\ UNCHANGED << engine, clients, reqs >>

NextUpload == UploadStart \/ UploadBatch \/ UploadUpsert

SpecUpload == InitUpload /\ [][NextUpload]_vars

----------------------------------------------------------------------------
(* The lazily initialised module-level singletons and their accessors *)

\* temperatures are in tenths: 0 is 0.0, 3 is 0.3, 7 is 0.7.  The calls the
\* code makes (get_crag_graph in run_query, get_qdrant_client in
\* get_collection_info, get_groq_client() in grade_relevance,
\* get_gemini_client() in generate_answer, get_gemini_client(temperature=
\* 0.7) in rewrite_query) and one call with an explicit model
AccessorCalls ==
    { [ accessor |-> "graph",  model |-> "default", temperature |-> 0 ],
      [ accessor |-> "qdrant", model |-> "default", temperature |-> 0 ],
      [ accessor |-> "groq",   model |-> "default", temperature |-> 0 ],
      [ accessor |-> "gemini", model |-> "default", temperature |-> 3 ],
      [ accessor |-> "gemini", model |-> "default", temperature |-> 7 ],
      [ accessor |-> "groq",   model |-> "other",   temperature |-> 0 ] }

\* ChatGroq(model=model_name, temperature=temperature, ...) and the like:
\* the object the constructor call of accessor a builds, the n-th built
NewClient(call, n) ==
    [ id |-> n, model |-> call.model, temperature |-> call.temperature ]

InitClients ==
    /\ EngineIdle
    /\ upload = IdleUpload
    /\ clients = IdleClients
    /\ reqs = IdleReqs

\* thread t calls an accessor
ClientCall(t) ==
    /\ clients.threads[t].pc \in {"idle", "done"}
    /\ clients.threads[t].calls < MaxCalls
    /\ \E call \in AccessorCalls :
         clients' = [ clients EXCEPT
                        !.threads[t].pc = "check",
                        !.threads[t].call = call,
                        !.threads[t].local = NoClient,
                        !.threads[t].result = NoClient ]
    /\ UNCHANGED << engine, upload, reqs >>

\* if _client is not None: (go and) return _client
ClientCheck(t) ==
    /\ clients.threads[t].pc = "check"
    /\ clients' = [ clients EXCEPT
                      !.threads[t].pc =
                          IF clients.cache[clients.threads[t].call.accessor]
                                 # NoClient
                          THEN "return" ELSE "construct" ]
    /\ UNCHANGED << engine, upload, reqs >>

\* the constructor call on the right of _client = ...
ClientConstruct(t) ==
    /\ clients.threads[t].pc = "construct"
    /\ LET a == clients.threads[t].call.accessor
       IN  clients' = [ clients EXCEPT
                         !.built[a] = clients.built[a] + 1,
                         !.threads[t].local =
                             NewClient(clients.threads[t].call,
                                       clients.built[a] + 1),
                         !.threads[t].pc = "assign" ]
    /\ UNCHANGED << engine, upload, reqs >>

\* the store to the module-level name
ClientAssign(t) ==
    /\ clients.threads[t].pc = "assign"
    /\ clients' = [ clients EXCEPT
                      !.cache[clients.threads[t].call.accessor] =
                          clients.threads[t].local,
                      !.threads[t].pc = "return" ]
    /\ UNCHANGED << engine, upload, reqs >>

\* return _client: the module-level name is read again
ClientReturn(t) ==
    /\ clients.threads[t].pc = "return"
    /\ LET a == clients.threads[t].call.accessor
       IN  clients' = [ clients EXCEPT
                         !.threads[t].result = clients.cache[a],
                         !.threads[t].calls = clients.threads[t].calls + 1,
                         !.handed[a] = clients.handed[a]
                                          \cup {clients.cache[a].id},
                         !.threads[t].pc = "done" ]
    /\ UNCHANGED << engine, upload, reqs >>

NextClients ==
    \E t \in Threads :
        \/ ClientCall(t)
        \/ ClientCheck(t)
        \/ ClientConstruct(t)
        \/ ClientAssign(t)
        \/ ClientReturn(t)

SpecClients == InitClients /\ [][NextClients]_vars

----------------------------------------------------------------------------
(* Two run_query calls as concurrent tasks of one event loop: a task is    *)
(* suspended at each awaited call (the search is a blocking call that ends *)
(* a step as well) and any task may run next                               *)

Requests == { 1, 2 }

\* run_query(question) of each task
PairQuestion(r) == IF r = 1 THEN <<"q">> ELSE <<"p">>

\* responses of the services to the tasks
PairSearchOutcomes ==
    { [err |-> TRUE, results |-> <<>>],
      [err |-> FALSE, results |-> <<>>],
      [err |-> FALSE, results |-> << [text |-> <<>>, article_number |-> 1],
                                    [text |-> <<"t">>, article_number |-> 2] >>] }

PairGraderOutcomes ==
    { Raised, Returned(<<" ", "Relevant", " ">>), Returned(<<"irrelevant">>) }

PairRewriterOutcomes == { Raised, Returned(<<"s">>) }

\* variant: every task threads one module-level state object
Channels_Shared(rs, r) == rs[1].state

\* graph.ainvoke(initial_state): the channels a node of task r reads are
\* those of its own invocation
Channels(rs, r) == rs[r].state

\* the run of one question alone, fed the responses of log in order; it
\* stops where the next response is missing
RECURSIVE RunAlone(_, _, _)
RunAlone(s, node, log) ==
    CASE node = "retrieve" ->
           IF log = <<>> THEN [state |-> s, pc |-> node]
           ELSE IF Escapes("retrieve", Head(log).err)
           THEN [state |-> s, pc |-> "raised"]
           ELSE RunAlone(Merge(s, retrieve(Head(log).results)),
                         Edge("retrieve"), Tail(log))
      [] node = "grade" ->
           IF Len(log) < Len(s.documents) THEN [state |-> s, pc |-> node]
           ELSE LET n   == Len(s.documents)
                    new == Merge(s, grade_documents(s, SubSeq(log, 1, n)))
                IN  RunAlone(new, route_after_grading(new),
                             SubSeq(log, n + 1, Len(log)))
      [] node = "rewrite" ->
           IF log = <<>> THEN [state |-> s, pc |-> node]
           ELSE RunAlone(Merge(s, rewrite_query(s, Head(log))),
                         Edge("rewrite"), Tail(log))
      [] node = "generate" ->
           IF log = <<>> THEN [state |-> s, pc |-> node]
           ELSE [state |-> Merge(s, generate(s, Head(log))),
                 pc |-> Edge("generate")]
      [] node = "no_answer" ->
           [state |-> Merge(s, no_answer(s)), pc |-> Edge("no_answer")]

\* both tasks created: initial_state = create_initial_state(question)
InitPair ==
    /\ max_rewrite_attempts \in 0..MaxRewritePair
    /\ RunIdle
    /\ upload = IdleUpload
    /\ clients = IdleClients
    /\ reqs = [ r \in Requests |->
                  [ state |-> create_initial_state(PairQuestion(r)),
                    pc    |-> "retrieve",
                    j     |-> 0,
                    acc   |-> <<>>,
                    log   |-> <<>> ] ]

\* node "retrieve" of task r
PairRetrieve(r) ==
    /\ reqs[r].pc = "retrieve"
    /\ \E outcome \in PairSearchOutcomes :
         LET s == Channels(reqs, r)
         IN  reqs' = [ reqs EXCEPT ![r] =
                 IF Escapes("retrieve", outcome.err)
                 THEN [ @ EXCEPT !.pc = "raised",
                                 !.log = Append(@, outcome) ]
                 ELSE [ @ EXCEPT !.state = Merge(s, retrieve(outcome.results)),
                                 !.pc = Edge("retrieve"),
                                 !.log = Append(@, outcome) ] ]
    /\ UNCHANGED << engine, upload, clients >>

\* node "grade" of task r up to its next awaited call: the early return on
\* an empty list, or one turn of the loop (graded_documents is a local),
\* the last turn followed by the return and the conditional edge
PairGrade(r) ==
    /\ reqs[r].pc = "grade"
    /\ LET s == Channels(reqs, r)
       IN  IF s.documents = <<>>
           THEN LET new == Merge(s, grade_documents(s, <<>>))
                IN  reqs' = [ reqs EXCEPT ![r].state = new,
                                          ![r].pc = route_after_grading(new) ]
           ELSE \E outcome \in PairGraderOutcomes :
                  LET doc == s.documents[reqs[r].j + 1]
                      acc == reqs[r].acc \o GradeOne(doc, outcome)
                      new == Merge(s, [graded_documents |-> acc])
                  IN  reqs' = [ reqs EXCEPT ![r] =
                          IF Escapes("grade", outcome.err)
                          THEN [ @ EXCEPT !.pc = "raised",
                                          !.log = Append(@, outcome) ]
                          ELSE IF reqs[r].j + 1 < Len(s.documents)
                          THEN [ @ EXCEPT !.j = @ + 1, !.acc = acc,
                                          !.log = Append(@, outcome) ]
                          ELSE [ @ EXCEPT !.state = new,
                                          !.pc = route_after_grading(new),
                                          !.j = 0, !.acc = <<>>,
                                          !.log = Append(@, outcome) ] ]
    /\ UNCHANGED << engine, upload, clients >>

\* node "rewrite" of task r
PairRewrite(r) ==
    /\ reqs[r].pc = "rewrite"
    /\ \E outcome \in PairRewriterOutcomes :
         LET s == Channels(reqs, r)
         IN  reqs' = [ reqs EXCEPT ![r] =
                 IF Escapes("rewrite", outcome.err)
                 THEN [ @ EXCEPT !.pc = "raised",
                                 !.log = Append(@, outcome) ]
                 ELSE [ @ EXCEPT !.state = Merge(s, rewrite_query(s, outcome)),
                                 !.pc = Edge("rewrite"),
                                 !.log = Append(@, outcome) ] ]
    /\ UNCHANGED << engine, upload, clients >>

\* the terminal node of task r
PairTerminate(r) ==
    /\ reqs[r].pc \in {"generate", "no_answer"}
    /\ LET s == Channels(reqs, r)
       IN  IF reqs[r].pc = "generate"
           THEN \E outcome \in GeneratorOutcomes :
                  reqs' = [ reqs EXCEPT ![r] =
                      IF Escapes("generate", outcome.err)
                      THEN [ @ EXCEPT !.pc = "raised",
                                      !.log = Append(@, outcome) ]
                      ELSE [ @ EXCEPT !.state = Merge(s, generate(s, outcome)),
                                      !.pc = Edge("generate"),
                                      !.log = Append(@, outcome) ] ]
           ELSE reqs' = [ reqs EXCEPT ![r].state = Merge(s, no_answer(s)),
                                      ![r].pc = Edge("no_answer") ]
    /\ UNCHANGED << engine, upload, clients >>

NextPair ==
    \E r \in Requests :
        \/ PairRetrieve(r)
        \/ PairGrade(r)
        \/ PairRewrite(r)
        \/ PairTerminate(r)

SpecPair == InitPair /\ [][NextPair]_vars

----------------------------------------------------------------------------
(* Properties *)

Terminal == pc \in {"END", "raised"}

\* steps taken so far: every step of the graph adds one
Measure ==
    n_retrieve + n_grade + n_rewrite + (IF Terminal THEN 1 ELSE 0)

\* the passages of docs at the positions of I, in order
RECURSIVE SelectIdx(_, _, _)
SelectIdx(docs, I, i) ==
    IF i > Len(docs) THEN <<>>
    ELSE (IF i \in I THEN <<docs[i]>> ELSE <<>>) \o SelectIdx(docs, I, i + 1)

C2_TerminatesWithinBudget ==
    /\ [](/\ n_retrieve <= max_rewrite_attempts + 1
          /\ n_grade <= n_retrieve
          /\ n_rewrite <= max_rewrite_attempts
          /\ ~Terminal => ENABLED Next)
    /\ [][Measure' = Measure + 1]_vars

C2_Witness ==
    /\ pc = "END"
    /\ relevant_seen
    /\ llm_failed
    /\ n_retrieve = max_rewrite_attempts + 1
    /\ max_rewrite_attempts = 2
    /\ \E i \in 1..Len(outcomes) : outcomes[i].err

\* C3: the router returns generate whenever the relevant set is not empty,
\* for every retry_count, and rewrite whenever it is empty and
\* retry_count < max_retries.
C3_RouteGenerateOrRewrite ==
    last_node = "route" =>
        /\ Len(state.graded_documents) >= 1 => decision = "generate"
        /\ (Len(state.graded_documents) = 0
              /\ state.rewrite_count < max_rewrite_attempts)
             => decision = "rewrite"

C3_Witness ==
    /\ last_node = "route"
    /\ Len(state.graded_documents) >= 1
    /\ state.rewrite_count > max_rewrite_attempts
    /\ decision = "generate"

C5_NoAnswerSelectable ==
    \/ pc = "no_answer"
    \/ last_node = "no_answer"
    \/ \E m \in 0..MaxRewriteModelled, g \in DocLists, c \in 0..OverBudget :
          Route(Len(g) > 0, c < m) = "no_answer"

\* the node no_answer never runs in a run of the graph
NoAnswerNeverRuns == pc # "no_answer" /\ last_node # "no_answer"

\* C6: in every state of a run, 0 <= retry_count <= max_retries.
C6_RetryCountWithinBudget ==
    /\ 0 <= state.rewrite_count
    /\ state.rewrite_count <= max_rewrite_attempts

C6_Witness ==
    /\ max_rewrite_attempts = 2
    /\ state.rewrite_count = max_rewrite_attempts
    /\ pc = "grade"

\* C7: after n rewrite transitions retry_count = n and query_history has
\* n + 1 elements, whether the rewrites succeeded or fell back.
C7_RetryCountAndHistoryLength ==
    /\ state.rewrite_count = n_rewrite
    /\ Len(state.query_history) = n_rewrite + 1

C7_Witness ==
    /\ n_rewrite = 2
    /\ last_node = "rewrite"
    /\ llm_failed
    /\ state.query_history[2] # state.query_history[1]
    /\ state.query_history[3] = state.query_history[2]

\* C8: once the rewrite node's update is merged, documents and
\* graded_documents are both empty, whatever they held before.
C8_RewriteEmptiesPassages ==
    last_node = "rewrite" =>
        /\ state.documents = <<>>
        /\ state.graded_documents = <<>>

\* C9: the passages handed to the generator and left in graded_documents
\* of the final state are exactly those the grade of the final attempt
\* kept, all taken from that attempt's retrieval; none is left over from
\* an earlier attempt.
C9_NoStalePassages ==
    last_node = "generate" =>
        /\ context = grade_out
        /\ state.graded_documents = grade_out
        /\ \E I \in SUBSET (1..Len(state.documents)) :
              grade_out = SelectIdx(state.documents, I, 1)

C9_Witness ==
    /\ last_node = "generate"
    /\ n_rewrite = 2
    /\ Len(context) = 2
    /\ context[1] # context[2]

\* C10: a passage whose grading call raised is in the relevant set, and the
\* passages after it are still graded: the relevant set is the retrieved
\* list restricted to positions that include every raising call and every
\* call answered "relevant".
C10_GraderFailsOpen ==
    (last_node = "grade" /\ state.documents # <<>>) =>
        \E I \in SUBSET (1..Len(state.documents)) :
            /\ \A i \in 1..Len(outcomes) : outcomes[i].err => i \in I
            /\ \A i \in 1..Len(outcomes) :
                  outcomes[i] = Returned(<<" ", "Relevant", " ">>) => i \in I
            /\ grade_out = SelectIdx(state.documents, I, 1)
            /\ state.graded_documents = grade_out

C10_Witness ==
    /\ last_node = "grade"
    /\ Len(state.documents) = 2
    /\ outcomes[1].err
    /\ outcomes[2] = Returned(<<"irrelevant">>)
    /\ grade_out = <<state.documents[1]>>

\* a returned grader content that is neither verdict
Malformed(outcome) ==
    /\ ~outcome.err
    /\ Lower(Strip(outcome.content)) \notin { <<"relevant">>, <<"irrelevant">> }

\* C11: a passage whose grading call returned a malformed response (empty
\* text, unrelated text, both words) is in the relevant set.
C11_MalformedGradedRelevant ==
    (last_node = "grade" /\ state.documents # <<>>) =>
        \E I \in SUBSET (1..Len(state.documents)) :
            /\ \A i \in 1..Len(outcomes) : Malformed(outcomes[i]) => i \in I
            /\ grade_out = SelectIdx(state.documents, I, 1)

\* C12: a retrieved passage with empty content is skipped by the grader: no
\* model call is made with it and it is not in the relevant set.
C12_EmptyPassagesSkipped ==
    last_node = "grade" =>
        /\ \A i \in 1..Len(prompts) : prompts[i] # <<>>
        /\ \A i \in 1..Len(grade_out) : grade_out[i].page_content # <<>>

\* C13: in each attempt the grader model is called exactly once per
\* retrieved passage, in retrieval order, and the relevant set is the
\* retrieved list restricted to the passages graded relevant, in their
\* retrieval order.
C13_OneCallPerPassageOrderKept ==
    last_node = "grade" =>
        /\ Len(prompts) = Len(state.documents)
        /\ \A i \in 1..Len(prompts) : prompts[i] = state.documents[i].page_content
        /\ Len(outcomes) = Len(state.documents)
        /\ grade_out =
              SelectIdx(state.documents,
                        { i \in 1..Len(state.documents) :
                            GradeOne(state.documents[i], outcomes[i]) # <<>> },
                        1)

C13_Witness ==
    /\ last_node = "grade"
    /\ Len(state.documents) = 2
    /\ state.documents[1] # state.documents[2]
    /\ outcomes[1] = Returned(<<" ", "Relevant", " ">>)
    /\ outcomes[2] = Raised
    /\ grade_out = state.documents
    /\ Len(prompts) = 2

\* C14: when the generator's model call fails, the generate node sets the
\* answer to the fixed apology text and the run ends at END: nothing is
\* raised.
C14_GeneratorFailureGivesApology ==
    (last_node = "generate" /\ llm_failed) =>
        /\ pc = "END"
        /\ state.generation = ApologyText

C14_Witness ==
    /\ last_node = "generate"
    /\ llm_failed
    /\ pc = "END"
    /\ context # <<>>
    /\ state.generation = ApologyText

\* C15: a rewrite whose model call fails keeps the query text, adds one to
\* retry_count, appends the same text to query_history, and hands over to
\* retrieve, which can run with that query.
C15_FailedRewriteRepeatsQuery ==
    /\ [][(pc = "rewrite" /\ llm_failed') =>
            /\ state'.question = state.question
            /\ state'.rewrite_count = state.rewrite_count + 1
            /\ state'.query_history =
                  Append(state.query_history, state.question)
            /\ pc' = "retrieve"]_vars
    /\ [](last_node = "rewrite" => (pc = "retrieve" /\ ENABLED Retrieve))

C15_Witness ==
    /\ last_node = "retrieve"
    /\ pc = "grade"
    /\ llm_failed
    /\ n_rewrite = 1
    /\ n_retrieve = 2
    /\ state.rewrite_count = 1
    /\ state.query_history = << <<"q">>, <<"q">> >>
    /\ state.question = <<"q">>

\* C16: for a run started with a non-empty question, current_query is
\* non-empty in every state, whatever the rewriting model returns.
C16_QueryNeverEmpty == state.question # <<>>

\* C17: once a search call has raised, on the first or a later attempt, the
\* run has left the graph with the error: retrieve was the last node, no
\* step follows, no grade ran on a stand-in list and no answer is set.
C17_RetrievalErrorPropagates ==
    search_failed =>
        /\ pc = "raised"
        /\ last_node = "retrieve"
        /\ ~ENABLED Next
        /\ n_grade = n_retrieve
        /\ state.generation = ""

C17_Witness ==
    /\ search_failed
    /\ pc = "raised"
    /\ n_rewrite = 2
    /\ n_retrieve = 2

\* C18: a run ends either raised, and then only because a search call
\* raised, or at END with the answer set by a terminal node; until then it
\* can always take a step, whatever model calls failed.
C18_OnlyRetrievalFailureRaises ==
    /\ pc = "raised" => (search_failed /\ last_node = "retrieve")
    /\ pc = "END" =>
          /\ last_node \in {"generate", "no_answer"}
          /\ ~search_failed
          /\ state.generation \in
                {ApologyText, NoAnswerText} \cup GeneratorContents
    /\ pc \notin {"END", "raised"} => ENABLED Next

C18_Witness ==
    /\ pc = "END"
    /\ ~search_failed
    /\ llm_failed
    /\ n_rewrite = 2
    /\ state.query_history[3] = state.query_history[2]
    /\ Len(outcomes) = 2
    /\ outcomes[1].err
    /\ outcomes[2].err
    /\ state.generation = ApologyText

\* C19: when the first grade keeps at least one passage there is no
\* rewrite, the generator is called exactly once with exactly the passages
\* graded relevant, and the final state has retry_count = 0 and
\* query_history = [question].
C19_FirstAttemptRelevant ==
    (n_grade = 1 /\ relevant_seen) =>
        /\ n_rewrite = 0
        /\ pc \in {"generate", "END"}
        /\ pc = "END" =>
              /\ last_node = "generate"
              /\ n_generate = 1
              /\ context =
                    SelectIdx(state.documents,
                              { i \in 1..Len(state.documents) :
                                  GradeOne(state.documents[i], outcomes[i])
                                      # <<>> },
                              1)
              /\ state.graded_documents = context
              /\ state.rewrite_count = 0
              /\ state.question \in Questions
              /\ state.query_history = <<state.question>>

C19_Witness ==
    /\ pc = "END"
    /\ n_grade = 1
    /\ Len(state.documents) = 2
    /\ state.documents[1] # state.documents[2]
    /\ context = <<state.documents[2]>>
    /\ n_generate = 1
    /\ state.rewrite_count = 0

\* C20: the answer is the empty string in every state reached before a
\* terminal node has run: retrieve, grade and rewrite never write it.
C20_AnswerEmptyBeforeTerminal ==
    last_node \notin {"generate", "no_answer"} => state.generation = ""

C20_Witness ==
    /\ pc = "generate"
    /\ last_node = "grade"
    /\ n_rewrite = 2
    /\ state.generation = ""

\* a is a prefix of b
IsPrefix(a, b) == Len(a) <= Len(b) /\ SubSeq(b, 1, Len(a)) = a

Last(s) == s[Len(s)]

\* C21: query_history is append-only: at every step the previous history is
\* a prefix of the new one, its first element stays the user's question,
\* and it grows exactly at the rewrite steps, by one element.
C21_HistoryAppendOnly ==
    /\ [](/\ state.query_history # <<>>
          /\ state.query_history[1] \in Questions)
    /\ [][/\ IsPrefix(state.query_history, state'.query_history)
          /\ state'.query_history[1] = state.query_history[1]
          /\ (state'.query_history # state.query_history) <=> (pc = "rewrite")
          /\ pc = "rewrite" =>
                Len(state'.query_history) = Len(state.query_history) + 1]_vars

C21_Witness ==
    /\ last_node = "rewrite"
    /\ n_rewrite = 2
    /\ state.query_history = << <<"q">>, <<"s">>, <<"q">> >>

\* C22 as stated: the steps of every run are retrieve, grade, then
\* repetitions of (rewrite, retrieve, grade), then one terminal step: the
\* run starts at retrieve, after every retrieve the grade of the same query
\* is next, after every rewrite a retrieve is next, and nothing runs after
\* generate or no_answer.
C22_StepSequenceShape ==
    /\ last_node = "START" => pc = "retrieve"
    /\ last_node = "retrieve" => pc = "grade"
    /\ last_node = "grade" =>
          /\ pc \in {"rewrite", "generate", "no_answer"}
          /\ grade_query = search_query
          /\ n_grade = n_retrieve
    /\ last_node = "rewrite" => pc = "retrieve"
    /\ last_node \in {"generate", "no_answer"} =>
          /\ pc = "END"
          /\ ~ENABLED Next
          /\ n_retrieve = n_rewrite + 1
          /\ n_grade = n_retrieve

\* C22 amended: as stated for every retrieve whose search call returns; a
\* retrieve whose search call raises is the last step of its run (no
\* grade and no terminal step follows).
C22_StepSequenceUnlessSearchRaises ==
    /\ [](/\ last_node = "START" => pc = "retrieve"
          /\ last_node = "retrieve" =>
                IF search_failed
                THEN pc = "raised" /\ ~ENABLED Next
                ELSE pc = "grade"
          /\ last_node = "grade" =>
                /\ pc \in {"rewrite", "generate", "no_answer"}
                /\ grade_query = search_query
                /\ n_grade = n_retrieve
          /\ last_node = "rewrite" => pc = "retrieve"
          /\ last_node \in {"generate", "no_answer"} =>
                /\ pc = "END"
                /\ ~ENABLED Next
                /\ n_retrieve = n_rewrite + 1
                /\ n_grade = n_retrieve
          /\ pc \notin {"END", "raised"} => ENABLED Next)
    /\ [][/\ pc \in {"retrieve", "grade", "rewrite", "generate", "no_answer"}
          /\ last_node' = pc
          /\ last_node = "retrieve" => grade_query' = search_query]_vars

C22_Witness ==
    /\ pc = "END"
    /\ last_node = "generate"
    /\ n_retrieve = 3
    /\ n_grade = 3
    /\ n_rewrite = 2
    /\ relevant_seen
    /\ grade_query = <<"s">>

\* C25: after a grade step, grade_decision is the branch that
\* route_after_grading selects for the state.
C25_GradeDecisionIsRoute ==
    last_node = "grade" =>
        /\ state.grade_decision = route_after_grading(state)
        /\ state.grade_decision = decision

\* C26: on the forced-fallback path (no passage graded relevant, rewrite
\* budget exhausted) the generator's context is the list of passages
\* retrieved in the last attempt.
C26_ForcedFallbackUsesRetrieved ==
    (/\ last_node = "generate"
     /\ grade_out = <<>>
     /\ state.rewrite_count >= max_rewrite_attempts)
        => context = state.documents

\* C28: in every state the relevant set is a subsequence of the retrieved
\* list of the current attempt, and when that list is empty the relevant
\* set is empty and no grading call was made.
C28_RelevantWithinRetrieved ==
    /\ \E I \in SUBSET (1..Len(state.documents)) :
          state.graded_documents = SelectIdx(state.documents, I, 1)
    /\ state.documents = <<>> =>
          /\ state.graded_documents = <<>>
          /\ prompts = <<>>
          /\ outcomes = <<>>

C28_Witness ==
    /\ last_node = "grade"
    /\ n_rewrite = 1
    /\ Len(state.documents) = 2
    /\ state.documents[1] = state.documents[2]
    /\ outcomes[1] = Returned(<<"maybe">>)
    /\ outcomes[2] = Raised
    /\ state.graded_documents = <<state.documents[2]>>

\* C29: in every state the question field is the last element of
\* query_history, and the query a retrieve or grade step used is that
\* last element.
C29_QueryIsLastOfHistory ==
    /\ state.question = Last(state.query_history)
    /\ last_node = "retrieve" => search_query = Last(state.query_history)
    /\ last_node = "grade" =>
          /\ grade_query = Last(state.query_history)
          /\ search_query = Last(state.query_history)

C29_Witness ==
    /\ last_node = "grade"
    /\ n_rewrite = 2
    /\ Len(state.query_history) = 3
    /\ Last(state.query_history) # state.query_history[1]
    /\ state.query_history[2] # Last(state.query_history)
    /\ search_query = Last(state.query_history)

\* C30: for every max_retries and every pattern of upsert failures, each
\* batch with at least one valid point is upserted exactly once, after at
\* most max_retries attempts, or the call raises after the last failed
\* attempt; a call that returns dropped no batch and returns the number of
\* points upserted.
C30_NoBatchSilentlyDropped ==
    /\ \A k \in 1..Len(upload.batches) :
          upload.batches[k].points >= 1 =>
             \/ /\ upload.batches[k].upserts = 1
                /\ upload.batches[k].attempts <= upload.max_retries
             \/ /\ upload.batches[k].upserts = 0
                /\ upload.batches[k].attempts = upload.max_retries
                /\ upload.batches[k].attempts >= 1
                /\ upload.pc = "raised"
                /\ k = Len(upload.batches)
    /\ upload.pc = "returned" =>
          /\ upload.result = upload.stored
          /\ upload.stored = BatchPoints(upload.chunks, 0, Len(upload.chunks))

\* with max_retries >= 1 no batch is dropped
C30_DroppedOnlyWithoutAttempts ==
    upload.max_retries >= 1 => C30_NoBatchSilentlyDropped

\* C24: the lazily initialised singletons are thread-safe: whatever the
\* interleaving of the first calls, each underlying object is constructed
\* at most once and every caller receives that same instance.
C24_SingletonsThreadSafe ==
    \A a \in Accessors :
        /\ clients.built[a] <= 1
        /\ Cardinality(clients.handed[a]) <= 1
        /\ \A t \in Threads :
              (clients.threads[t].pc = "done"
                 /\ clients.threads[t].call.accessor = a)
                => clients.threads[t].result = clients.cache[a]

\* C27: whatever the order of calls, the client a call receives has the
\* temperature and the model requested for that call.
C27_ClientHasRequestedSettings ==
    \A t \in Threads :
        clients.threads[t].pc = "done" =>
            /\ clients.threads[t].result.temperature
                  = clients.threads[t].call.temperature
            /\ clients.threads[t].result.model
                  = clients.threads[t].call.model

\* the accessors hand out a constructed client, never None
ClientsNeverNone ==
    \A t \in Threads :
        clients.threads[t].pc = "done" => clients.threads[t].result # NoClient

\* task r has ended or is at a node whose next action is an external call
\* (a grade of an empty list and no_answer make none)
AtCallOrEnd(r) ==
    \/ reqs[r].pc \in {"END", "raised", "retrieve", "rewrite", "generate"}
    \/ reqs[r].pc = "grade" /\ reqs[r].state.documents # <<>>

\* C23: two requests interleaved at their awaited calls do not interfere:
\* at every point, and so at its end, the state of each (answer, relevant
\* passages, retry_count, query_history, the node it is at) is the one it
\* reaches when run alone with the service responses it received.
C23_RequestsDoNotInterfere ==
    \A r \in Requests :
        LET alone == RunAlone(create_initial_state(PairQuestion(r)),
                              "retrieve", reqs[r].log)
        IN  AtCallOrEnd(r) =>
                /\ reqs[r].state = alone.state
                /\ reqs[r].pc = alone.pc

C23_Witness ==
    /\ reqs[1].pc = "END"
    /\ reqs[2].pc = "END"
    /\ reqs[1].state.rewrite_count = 1
    /\ reqs[1].state.query_history = << <<"q">>, <<"s">> >>
    /\ Len(reqs[1].state.graded_documents) = 2
    /\ reqs[2].state.rewrite_count = 0
    /\ reqs[2].state.query_history = << <<"p">> >>
    /\ Len(reqs[2].state.graded_documents) = 1
    /\ reqs[2].state.generation = ApologyText

====
